---- MODULE Spec2Model ----
(***************************************************************************)
(* A model of the 42 reproducibility checker (src/app.py and its later     *)
(* revision src/app1_py.py): the Streamlit script as a state machine over  *)
(* UI reruns, its extraction functions as operators over texts that are    *)
(* sequences of characters, and Python's re module as a backtracking       *)
(* matcher over regular-expression syntax trees.                           *)
(***************************************************************************)
EXTENDS Integers, Sequences, FiniteSets, TLC

\* ------------------------------------------------------------------------
\* Characters.  A text is a sequence of characters; a character is a string
\* of length one, except the named non-ASCII ones: "NBSP" (U+00A0), "ZWSP"
\* (U+200B), "AD2" and "AD3" (the Arabic-Indic digits U+0662 and U+0663) and
\* "LONGS" (the long s, U+017F).
\* ------------------------------------------------------------------------

LowerSeq == <<"a", "b", "c", "d", "e", "f", "g", "h", "i", "j", "k", "l", "m", "n", "o", "p", "q", "r", "s", "t", "u", "v", "w", "x", "y", "z">>
UpperSeq == <<"A", "B", "C", "D", "E", "F", "G", "H", "I", "J", "K", "L", "M", "N", "O", "P", "Q", "R", "S", "T", "U", "V", "W", "X", "Y", "Z">>

Range(f) == {f[x] : x \in DOMAIN f}

LowerLetters == Range(LowerSeq)

UpperLetters == Range(UpperSeq)

\* [0-9]
Digit09 == {"0", "1", "2", "3", "4", "5", "6", "7", "8", "9"}

\* \d of a str pattern: the Unicode decimal digits
UDigit == Digit09 \cup {"AD2", "AD3"}

\* \s of a str pattern: Unicode whitespace (U+00A0 is whitespace, U+200B is not)
Space == {" ", "\n", "\t", "NBSP"}

\* \w of a str pattern
WordCh == LowerLetters \cup UpperLetters \cup UDigit \cup {"_", "LONGS"}

\* str.lower() on one character
Lower(c) == IF c \in UpperLetters
            THEN LowerSeq[CHOOSE k \in DOMAIN UpperSeq : UpperSeq[k] = c]
            ELSE c

LowerText(s) == [k \in DOMAIN s |-> Lower(s[k])]

\* re.IGNORECASE compares characters by their case folding: the long s is a
\* lowercase letter that folds to "s"
Fold(c) == IF c = "LONGS" THEN "s" ELSE Lower(c)

\* the decimal value of a digit character, as float() and int() read it
DigitVal(c) == CASE c = "0" -> 0 [] c = "1" -> 1 [] c = "2" -> 2 [] c = "3" -> 3
                 [] c = "4" -> 4 [] c = "5" -> 5 [] c = "6" -> 6 [] c = "7" -> 7
                 [] c = "8" -> 8 [] c = "9" -> 9 [] c = "AD2" -> 2 [] c = "AD3" -> 3

\* ------------------------------------------------------------------------
\* Regular expressions as syntax trees, and re's backtracking matcher.  A
\* configuration is [todo |-> the patterns still to match, in order,
\* i |-> the position in the text, g |-> the span <<from, to>> of group 1 or
\* <<>>]; the matcher keeps the untried configurations in the order re tries
\* them (greedy first).  ic is re.IGNORECASE.
\* ------------------------------------------------------------------------
Lit(w) == [t |-> "lit", w |-> w]

Cls(cs) == [t |-> "cls", cs |-> cs]

Cat(rs) == [t |-> "cat", rs |-> rs]

Alt(rs) == [t |-> "alt", rs |-> rs]

Opt(r) == [t |-> "opt", r |-> r]

Star(r) == [t |-> "star", r |-> r]

Plus(r) == Cat(<<r, Star(r)>>)

Grp(r) == [t |-> "grp", r |-> r]

WB == [t |-> "wb"]

CharEq(c, d, ic) == IF ic THEN Fold(c) = Fold(d) ELSE c = d

InCls(c, cs, ic) == IF ic THEN \E d \in cs : Fold(c) = Fold(d) ELSE c \in cs

\* \b: the characters on the two sides differ in being word characters
IsWordAt(s, i) == i >= 1 /\ i <= Len(s) /\ s[i] \in WordCh

WordBoundary(s, i) == IsWordAt(s, i - 1) # IsWordAt(s, i)

LitAt(w, s, i, ic) ==
    /\ i + Len(w) - 1 <= Len(s)
    /\ \A k \in 1..Len(w) : CharEq(s[i + k - 1], w[k], ic)

\* after one repetition of r that started at position from: one more, if
\* the repetition consumed something
Again(r, from) == [t |-> "again", r |-> r, from |-> from]

\* the end of group 1, which was opened at position from
Close(from) == [t |-> "close", from |-> from]

\* the end of the text
End == [t |-> "end"]

Cfg(todo, i, g) == [todo |-> todo, i |-> i, g |-> g]

\* the configurations that follow c, in the order of trial
Step(c, s, ic) ==
    LET r == Head(c.todo)
        rest == Tail(c.todo)
        i == c.i
    IN  CASE r.t = "lit" -> IF LitAt(r.w, s, i, ic)
                            THEN <<Cfg(rest, i + Len(r.w), c.g)>> ELSE <<>>
          [] r.t = "cls" -> IF i <= Len(s) /\ InCls(s[i], r.cs, ic)
                            THEN <<Cfg(rest, i + 1, c.g)>> ELSE <<>>
          [] r.t = "wb"  -> IF WordBoundary(s, i) THEN <<Cfg(rest, i, c.g)>> ELSE <<>>
          [] r.t = "end" -> IF i = Len(s) + 1 THEN <<Cfg(rest, i, c.g)>> ELSE <<>>
          [] r.t = "cat" -> <<Cfg(r.rs \o rest, i, c.g)>>
          [] r.t = "alt" -> [k \in DOMAIN r.rs |-> Cfg(<<r.rs[k]>> \o rest, i, c.g)]
          [] r.t = "opt" -> <<Cfg(<<r.r>> \o rest, i, c.g), Cfg(rest, i, c.g)>>
          \* greedy: one more repetition first, then none
          [] r.t = "star" -> <<Cfg(<<r.r, Again(r.r, i)>> \o rest, i, c.g), Cfg(rest, i, c.g)>>
          [] r.t = "again" -> IF i > r.from
                              THEN <<Cfg(<<Star(r.r)>> \o rest, i, c.g)>> ELSE <<>>
          [] r.t = "grp" -> <<Cfg(<<r.r, Close(i)>> \o rest, i, c.g)>>
          [] r.t = "close" -> <<Cfg(rest, i, <<r.from, i>>)>>

Miss == [ok |-> FALSE, e |-> 0, g |-> <<>>]

RECURSIVE Run(_, _, _)
\* backtracking: the first configuration, in the order of trial, with nothing
\* left to match
Run(untried, s, ic) ==
    IF untried = <<>> THEN Miss
    ELSE IF Head(untried).todo = <<>>
    THEN [ok |-> TRUE, e |-> Head(untried).i, g |-> Head(untried).g]
    ELSE Run(Step(Head(untried), s, ic) \o Tail(untried), s, ic)

\* the match of r in s at position i that re finds, if there is one
M(r, s, i, ic) == Run(<<Cfg(<<r>>, i, <<>>)>>, s, ic)

Sub(s, a, b) == [k \in 1..(b - a) |-> s[a + k - 1]]

\* group 1 of a match, as match.group(1) gives it
Group1(s, m) == IF m.g = <<>> THEN <<>> ELSE Sub(s, m.g[1], m.g[2])

NoMatch == [found |-> FALSE, start |-> 0, e |-> 0, g1 |-> <<>>]

\* the match at the leftmost start that has one; ms[k] is the match at k
Leftmost(s, ms) ==
    IF \A k \in DOMAIN ms : ~ms[k].ok THEN NoMatch
    ELSE LET start == CHOOSE k \in DOMAIN ms :
                          ms[k].ok /\ \A j \in DOMAIN ms : j < k => ~ms[j].ok
         IN  [found |-> TRUE, start |-> start, e |-> ms[start].e,
              g1 |-> Group1(s, ms[start])]

\* re.search from position i on
SearchFrom(r, s, i, ic) == Leftmost(s, [k \in i..(Len(s) + 1) |-> M(r, s, k, ic)])

\* re.search(pattern, text, flags)
Search(r, s, ic) == SearchFrom(r, s, 1, ic)

\* re.fullmatch(pattern, text, flags) is not None
FullMatch(r, s, ic) == M(Cat(<<r, End>>), s, 1, ic).ok

RECURSIVE FindAllFrom(_, _, _, _)
\* group 1 of the match m and of the matches after it
AndAfter(r, s, ic, m) ==
    IF ~m.found THEN <<>>
    ELSE <<m.g1>> \o FindAllFrom(r, s, IF m.e > m.start THEN m.e ELSE m.e + 1, ic)

\* re.findall of a pattern with one group: group 1 of each non-overlapping match
FindAllFrom(r, s, i, ic) == AndAfter(r, s, ic, SearchFrom(r, s, i, ic))

FindAll(r, s, ic) == FindAllFrom(r, s, 1, ic)

\* ------------------------------------------------------------------------
\* The pattern tables of src/app1_py.py.
\* ------------------------------------------------------------------------
SpStar == Star(Cls(Space))

\* NUM_FP = ([0-9]*\.?[0-9]+(?:[eE][\+\-]?\d+)?)
NUM_FP == Grp(Cat(<<Star(Cls(Digit09)), Opt(Lit(<<".">>)), Plus(Cls(Digit09)),
                    Opt(Cat(<<Cls({"e", "E"}), Opt(Cls({"+", "-"})), Plus(Cls(UDigit))>>))>>))

\* (\d+)
IntGrp == Grp(Plus(Cls(UDigit)))

Params == {"learning_rate", "batch_size", "epochs", "dropout"}

\* \s*=\s*
Assign == Cat(<<SpStar, Lit(<<"=">>), SpStar>>)

\* \s*(?:of|is|=)\s*
OfIsEq == Cat(<<SpStar, Alt(<<Lit(<<"o", "f">>), Lit(<<"i", "s">>), Lit(<<"=">>)>>), SpStar>>)

HYPERPARAMETER_PATTERNS ==
    [p \in Params |->
       CASE p = "learning_rate" ->
              <<Cat(<<Lit(<<"l", "e", "a", "r", "n", "i", "n", "g">>), Opt(Cls({"_"} \cup Space)), Lit(<<"r", "a", "t", "e">>), Assign, NUM_FP>>),
                Cat(<<Lit(<<"l", "r">>), Assign, NUM_FP>>)>>
         [] p = "batch_size" ->
              <<Cat(<<Lit(<<"b", "a", "t", "c", "h">>), Opt(Cls({"_"} \cup Space)), Lit(<<"s", "i", "z", "e">>), Assign, IntGrp>>)>>
         [] p = "epochs" ->
              <<Cat(<<Opt(Lit(<<"n", "u", "m", "_">>)), Lit(<<"e", "p", "o", "c", "h", "s">>), Assign, IntGrp>>)>>
         [] p = "dropout" ->
              <<Cat(<<Lit(<<"d", "r", "o", "p", "o", "u", "t">>), Assign, NUM_FP>>)>>]

PAPER_HYPERPARAMETER_PATTERNS ==
    [p \in Params |->
       CASE p = "learning_rate" ->
              <<Cat(<<Lit(<<"l", "e", "a", "r", "n", "i", "n", "g">>), SpStar, Lit(<<"r", "a", "t", "e">>), OfIsEq, NUM_FP>>)>>
         [] p = "batch_size" ->
              <<Cat(<<Lit(<<"b", "a", "t", "c", "h">>), Opt(Cls({"-"} \cup Space)), Lit(<<"s", "i", "z", "e">>), OfIsEq, IntGrp>>)>>
         [] p = "epochs" ->
              <<Cat(<<Alt(<<Lit(<<"f", "o", "r">>), Lit(<<"o", "v", "e", "r">>)>>), SpStar, IntGrp, SpStar, Lit(<<"e", "p", "o", "c", "h", "s">>)>>),
                Cat(<<Lit(<<"e", "p", "o", "c", "h", "s">>), SpStar, Alt(<<Lit(<<"o", "f">>), Lit(<<"=">>)>>), SpStar, IntGrp>>)>>
         [] p = "dropout" ->
              <<Cat(<<Lit(<<"d", "r", "o", "p", "o", "u", "t">>), OfIsEq, NUM_FP>>)>>]

SEED_PATTERNS ==
    <<Lit(<<"n", "p", ".", "r", "a", "n", "d", "o", "m", ".", "s", "e", "e", "d">>),
      Lit(<<"t", "o", "r", "c", "h", ".", "m", "a", "n", "u", "a", "l", "_", "s", "e", "e", "d">>),
      Lit(<<"t", "o", "r", "c", "h", ".", "c", "u", "d", "a", ".", "m", "a", "n", "u", "a", "l", "_", "s", "e", "e", "d", "_", "a", "l", "l">>),
      Lit(<<"r", "a", "n", "d", "o", "m", ".", "s", "e", "e", "d">>),
      Lit(<<"t", "f", ".", "r", "a", "n", "d", "o", "m", ".", "s", "e", "t", "_", "s", "e", "e", "d">>),
      Lit(<<"j", "a", "x", ".", "r", "a", "n", "d", "o", "m", ".", "P", "R", "N", "G", "K", "e", "y">>),
      Cat(<<Lit(<<"o", "s", ".", "e", "n", "v", "i", "r", "o", "n", "[">>), SpStar, Cls({"'", "\""}), Lit(<<"P", "Y", "T", "H", "O", "N", "H", "A", "S", "H", "S", "E", "E", "D">>), Cls({"'", "\""}), SpStar, Lit(<<"]">>)>>),
      Cat(<<Lit(<<"t", "o", "r", "c", "h", ".", "u", "s", "e", "_", "d", "e", "t", "e", "r", "m", "i", "n", "i", "s", "t", "i", "c", "_", "a", "l", "g", "o", "r", "i", "t", "h", "m", "s", "(">>), SpStar, Lit(<<"T", "r", "u", "e">>), SpStar, Lit(<<")">>)>>),
      Cat(<<Lit(<<"t", "o", "r", "c", "h", ".", "b", "a", "c", "k", "e", "n", "d", "s", ".", "c", "u", "d", "n", "n", ".", "d", "e", "t", "e", "r", "m", "i", "n", "i", "s", "t", "i", "c">>), Assign, Lit(<<"T", "r", "u", "e">>)>>),
      Cat(<<Lit(<<"t", "o", "r", "c", "h", ".", "b", "a", "c", "k", "e", "n", "d", "s", ".", "c", "u", "d", "n", "n", ".", "b", "e", "n", "c", "h", "m", "a", "r", "k">>), Assign, Lit(<<"F", "a", "l", "s", "e">>)>>)>>

\* the keyword vocabulary of the paper-side pattern
Vocabulary ==
    <<<<"a", "t", "t", "e", "n", "t", "i", "o", "n">>,
      <<"t", "r", "a", "n", "s", "f", "o", "r", "m", "e", "r">>,
      <<"e", "m", "b", "e", "d", "d", "i", "n", "g">>,
      <<"o", "p", "t", "i", "m", "i", "z", "e", "r">>,
      <<"l", "a", "y", "e", "r">>,
      <<"m", "o", "d", "e", "l">>,
      <<"t", "o", "k", "e", "n">>,
      <<"p", "r", "e", "d", "i", "c", "t", "i", "o", "n">>,
      <<"l", "o", "s", "s">>>>

\* \b(attention|transformer|...|loss)\b
KeywordPattern ==
    Cat(<<WB, Grp(Alt([k \in DOMAIN Vocabulary |-> Lit(Vocabulary[k])])), WB>>)

\* rf'\b{re.escape(kw)}\b'
WholeWord(kw) == Cat(<<WB, Lit(kw), WB>>)

\* ------------------------------------------------------------------------
\* The pattern tables of src/app.py.
\* ------------------------------------------------------------------------
\* ([0-9\.]+)
DotNum == Grp(Plus(Cls(Digit09 \cup {"."})))

HYPERPARAMETER_PATTERNS_0 ==
    [p \in Params |->
       CASE p = "learning_rate" ->
              <<Cat(<<Lit(<<"l", "e", "a", "r", "n", "i", "n", "g", "_", "r", "a", "t", "e">>), Assign, DotNum>>),
                Cat(<<Lit(<<"l", "r">>), Assign, DotNum>>)>>
         [] p = "batch_size" ->
              <<Cat(<<Lit(<<"b", "a", "t", "c", "h", "_", "s", "i", "z", "e">>), Assign, IntGrp>>)>>
         [] p = "epochs" ->
              <<Cat(<<Lit(<<"e", "p", "o", "c", "h", "s">>), Assign, IntGrp>>),
                Cat(<<Lit(<<"n", "u", "m", "_", "e", "p", "o", "c", "h", "s">>), Assign, IntGrp>>)>>
         [] p = "dropout" ->
              <<Cat(<<Lit(<<"d", "r", "o", "p", "o", "u", "t">>), Assign, DotNum>>)>>]

PAPER_HYPERPARAMETER_PATTERNS_0 ==
    [p \in Params |->
       CASE p = "learning_rate" ->
              <<Cat(<<Lit(<<"l", "e", "a", "r", "n", "i", "n", "g", " ", "r", "a", "t", "e", " ", "o", "f">>), SpStar, DotNum>>)>>
         [] p = "batch_size" ->
              <<Cat(<<Lit(<<"b", "a", "t", "c", "h", " ", "s", "i", "z", "e", " ", "o", "f">>), SpStar, IntGrp>>)>>
         [] p = "epochs" ->
              <<Cat(<<Lit(<<"f", "o", "r">>), SpStar, IntGrp, SpStar, Lit(<<"e", "p", "o", "c", "h", "s">>)>>)>>
         [] p = "dropout" ->
              <<Cat(<<Lit(<<"d", "r", "o", "p", "o", "u", "t", " ", "o", "f">>), SpStar, DotNum>>)>>]

seed_patterns_0 ==
    <<Lit(<<"n", "p", ".", "r", "a", "n", "d", "o", "m", ".", "s", "e", "e", "d">>),
      Lit(<<"t", "o", "r", "c", "h", ".", "m", "a", "n", "u", "a", "l", "_", "s", "e", "e", "d">>),
      Lit(<<"r", "a", "n", "d", "o", "m", ".", "s", "e", "e", "d">>),
      Lit(<<"t", "o", "r", "c", "h", ".", "c", "u", "d", "a", ".", "m", "a", "n", "u", "a", "l", "_", "s", "e", "e", "d", "_", "a", "l", "l">>),
      Cat(<<Lit(<<"o", "s", ".", "e", "n", "v", "i", "r", "o", "n", "[">>), SpStar, Cls({"'", "\""}), Lit(<<"P", "Y", "T", "H", "O", "N", "H", "A", "S", "H", "S", "E", "E", "D">>), Cls({"'", "\""}), SpStar, Lit(<<"]">>)>>),
      Lit(<<"t", "o", "r", "c", "h", ".", "b", "a", "c", "k", "e", "n", "d", "s", ".", "c", "u", "d", "n", "n", ".", "d", "e", "t", "e", "r", "m", "i", "n", "i", "s", "t", "i", "c">>)>>

\* ------------------------------------------------------------------------
\* Hyperparameter maps and the extraction loop both files share:
\*   for param, patterns in TABLE.items():
\*       for pattern in patterns:
\*           match = re.search(pattern, text, flags)
\*           if match: hyperparameters[param] = match.group(1); break
\* ------------------------------------------------------------------------
EmptyMap == [p \in {} |-> <<>>]

\* if match: hyperparameters[param] = match.group(1); break
Captured(match, later) ==
    IF match.found THEN [found |-> TRUE, v |-> match.g1] ELSE later

RECURSIVE FirstCapture(_, _, _, _)
\* the inner loop from pattern k on: the first pattern that matches decides
FirstCapture(patterns, text, ic, k) ==
    IF k > Len(patterns) THEN [found |-> FALSE, v |-> <<>>]
    ELSE Captured(Search(patterns[k], text, ic), FirstCapture(patterns, text, ic, k + 1))

\* the dict the outer loop builds from what the inner loop found
AsDict(hit) == [p \in {q \in DOMAIN hit : hit[q].found} |-> hit[p].v]

extract_hyperparameters(table, text, ic) ==
    AsDict(<<>> @@ [p \in Params |-> FirstCapture(table[p], text, ic, 1)])

\* ------------------------------------------------------------------------
\* Papers.  A paper is an uploaded file; PdfText is what fitz extracts from
\* it (the pages joined by "\n"), and fitz raises on a corrupt file.
\* ------------------------------------------------------------------------
None == "None"

\* [\u00A0\u2000-\u200B\u202F\u205F\u3000]
OddSpaces == {"NBSP", "ZWSP"}

normalize_spaces(text) ==
    [k \in DOMAIN text |-> IF text[k] \in OddSpaces THEN " " ELSE text[k]]

\* set(re.findall(KEYWORDS, full_text, re.IGNORECASE)), then lowercased
paper_keywords_of(full_text) ==
    {LowerText(k) : k \in Range(FindAll(KeywordPattern, full_text, TRUE))}

\* src/app.py keeps the keywords as they are spelled in the paper
paper_keywords_of_0(full_text) == Range(FindAll(KeywordPattern, full_text, TRUE))

PdfFailed == [keywords |-> {}, hyperparameters |-> EmptyMap, error |-> TRUE]

\* ------------------------------------------------------------------------
\* Code units.  A unit's source is a sequence of lines, each
\* [ind |-> indentation level, kind, arg]; FileText renders the characters
\* the regular expressions read, and ast_parse is ast.parse on that text for
\* the statement forms the lines can take.
\* ------------------------------------------------------------------------
RECURSIVE Indent(_)
Indent(n) == IF n = 0 THEN <<>> ELSE <<" ", " ", " ", " ">> \o Indent(n - 1)

LineChars(l) ==
    Indent(l.ind) \o
    CASE l.kind = "def"    -> <<"d", "e", "f", " ">> \o l.arg \o <<"(", ")", ":">>
      [] l.kind = "class"  -> <<"c", "l", "a", "s", "s", " ">> \o l.arg \o <<":">>
      [] l.kind = "import" -> <<"i", "m", "p", "o", "r", "t", " ">> \o l.arg
      [] l.kind = "from"   -> <<"f", "r", "o", "m", " ">> \o l.arg
                              \o <<" ", "i", "m", "p", "o", "r", "t", " ", "x">>
      [] l.kind = "stmt"   -> l.arg

RECURSIVE FileText(_)
FileText(lines) ==
    IF lines = <<>> THEN <<>>
    ELSE IF Len(lines) = 1 THEN LineChars(lines[1])
    ELSE LineChars(lines[1]) \o <<"\n">> \o FileText(Tail(lines))

Count(s, c) == Cardinality({k \in DOMAIN s : s[k] = c})

\* a simple statement is well formed unless a parenthesis is left open
WellFormed(l) == l.kind # "stmt" \/ Count(l.arg, "(") = Count(l.arg, ")")

ParseFailed == [ok |-> FALSE, nodes |-> <<>>, next |-> 0]

RECURSIVE ParseBlock(_, _, _)
\* the statements at indentation ind from line i on, as syntax-tree nodes
\* [kind, name, body]; a block header needs a deeper-indented body
ParseBlock(lines, i, ind) ==
    IF i > Len(lines) \/ lines[i].ind < ind
    THEN [ok |-> TRUE, nodes |-> <<>>, next |-> i]
    ELSE IF lines[i].ind > ind \/ ~WellFormed(lines[i]) THEN ParseFailed
    ELSE IF lines[i].kind \in {"def", "class"}
    THEN IF i + 1 > Len(lines) \/ lines[i + 1].ind <= ind THEN ParseFailed
         ELSE LET body == ParseBlock(lines, i + 1, lines[i + 1].ind)
                  rest == ParseBlock(lines, body.next, ind)
              IN  IF ~body.ok \/ ~rest.ok THEN ParseFailed
                  ELSE [ok |-> TRUE,
                        nodes |-> <<[kind |-> lines[i].kind, name |-> lines[i].arg,
                                     body |-> body.nodes]>> \o rest.nodes,
                        next |-> rest.next]
    ELSE LET rest == ParseBlock(lines, i + 1, ind)
         IN  IF ~rest.ok THEN ParseFailed
             ELSE [ok |-> TRUE,
                   nodes |-> <<[kind |-> lines[i].kind, name |-> lines[i].arg,
                                body |-> <<>>]>> \o rest.nodes,
                   next |-> rest.next]

\* ast.parse: the module's body, or a SyntaxError
ast_parse(lines) == ParseBlock(lines, 1, 0)

RECURSIVE Flatten(_)
\* the concatenation of a sequence of sequences
Flatten(ss) == IF ss = <<>> THEN <<>> ELSE Head(ss) \o Flatten(Tail(ss))

RECURSIVE ast_walk(_)
\* ast.walk: breadth first, a node's children queued behind the nodes
\* already waiting
ast_walk(nodes) ==
    IF nodes = <<>> THEN <<>>
    ELSE nodes \o ast_walk(Flatten([k \in DOMAIN nodes |-> nodes[k].body]))

IsFunctionDef(n) == n.kind = "def"

\* [node.name for node in ast.walk(tree) if isinstance(node, ast.FunctionDef)]
FunctionNames(nodes) ==
    LET w == SelectSeq(ast_walk(nodes), IsFunctionDef)
    IN  [k \in DOMAIN w |-> w[k].name]

\* node.module of "from . import x" is None
ModuleOf(n) == IF n.name = <<".">> THEN <<None>> ELSE n.name

IsImportKept(n) == n.kind = "import" \/ (n.kind = "from" /\ ModuleOf(n) # <<None>>)

IsImport(n) == n.kind \in {"import", "from"}

\* the import loop of src/app1_py.py: a relative import without module is skipped
ImportNames(nodes) ==
    LET w == SelectSeq(ast_walk(nodes), IsImportKept)
    IN  [k \in DOMAIN w |-> IF w[k].kind = "import" THEN w[k].name ELSE ModuleOf(w[k])]

\* the import loop of src/app.py: node.module is appended as it is, None too
ImportNames_0(nodes) ==
    LET w == SelectSeq(ast_walk(nodes), IsImport)
    IN  [k \in DOMAIN w |-> IF w[k].kind = "import" THEN w[k].name ELSE ModuleOf(w[k])]

AnySeed(patterns, text, ic) ==
    \E k \in DOMAIN patterns : Search(patterns[k], text, ic).found

\* seeded fault (C12): every term of the vocabulary found in the text
matched_keywords_of_fault(paper_keywords, text) ==
    {kw \in Range(Vocabulary) : Search(WholeWord(kw), text, TRUE).found}

\* {kw for kw in paper_keywords if re.search(rf'\b{re.escape(kw)}\b', text, re.I)}
matched_keywords_of(paper_keywords, text) ==
    {kw \in paper_keywords : Search(WholeWord(kw), text, TRUE).found}

\* the return of the except branch
AnalysisFailed ==
    [functions |-> <<>>, imports |-> <<>>, seed |-> FALSE, matched |-> {},
     hypers |-> EmptyMap, error |-> TRUE]

\* the statements of the try block after the two walks: the seed flag, the
\* matched keywords and the hyperparameters, all read from the text alone
text_signals(text, paper_keywords) ==
    [seed |-> AnySeed(SEED_PATTERNS, text, TRUE),
     matched |-> matched_keywords_of(paper_keywords, text),
     hypers |-> extract_hyperparameters(HYPERPARAMETER_PATTERNS, text, TRUE)]

text_signals_0(text, paper_keywords) ==
    [seed |-> AnySeed(seed_patterns_0, text, FALSE),
     matched |-> matched_keywords_of(paper_keywords, text),
     hypers |-> extract_hyperparameters(HYPERPARAMETER_PATTERNS_0, text, FALSE)]

\* the return of the try block of src/app1_py.py
TryBlock(tree, sig) ==
    IF ~tree.ok THEN AnalysisFailed
    ELSE [functions |-> FunctionNames(tree.nodes),
          imports |-> ImportNames(tree.nodes),
          seed |-> sig.seed, matched |-> sig.matched, hypers |-> sig.hypers,
          error |-> FALSE]

\* analyze_python_code of src/app1_py.py; error: st.error was called
analyze_python_code(lines, paper_keywords) ==
    TryBlock(ast_parse(lines), text_signals(FileText(lines), paper_keywords))

\* the return of the try block of src/app.py
TryBlock_0(tree, sig) ==
    IF ~tree.ok THEN AnalysisFailed
    ELSE [functions |-> FunctionNames(tree.nodes),
          imports |-> ImportNames_0(tree.nodes),
          seed |-> sig.seed, matched |-> sig.matched, hypers |-> sig.hypers,
          error |-> FALSE]

\* analyze_python_code of src/app.py
analyze_python_code_0(lines, paper_keywords) ==
    TryBlock_0(ast_parse(lines), text_signals_0(FileText(lines), paper_keywords))

\* ------------------------------------------------------------------------
\* _to_num and the comparison rows.
\* ------------------------------------------------------------------------
NotFound == <<"N", "o", "t", " ", "F", "o", "u", "n", "d">>

RECURSIVE StripLeft(_)
StripLeft(s) == IF s # <<>> /\ Head(s) \in Space THEN StripLeft(Tail(s)) ELSE s

RECURSIVE StripRight(_)
StripRight(s) ==
    IF s # <<>> /\ s[Len(s)] \in Space THEN StripRight(SubSeq(s, 1, Len(s) - 1)) ELSE s

\* str.strip()
Strip(s) == StripRight(StripLeft(s))

RECURSIVE DigitsVal(_)
DigitsVal(ds) ==
    IF ds = <<>> THEN 0
    ELSE 10 * DigitsVal(SubSeq(ds, 1, Len(ds) - 1)) + DigitVal(ds[Len(ds)])

IndexOf(s, cs) == IF \E k \in DOMAIN s : s[k] \in cs
                  THEN CHOOSE k \in DOMAIN s : s[k] \in cs /\ \A j \in 1..(k - 1) : s[j] \notin cs
                  ELSE 0

RECURSIVE Canon(_, _)
\* m * 10^e without trailing zeros in m: one representation for each value
Canon(m, e) == IF m = 0 THEN [num |-> TRUE, m |-> 0, e |-> 0]
               ELSE IF m % 10 = 0 THEN Canon(m \div 10, e + 1)
               ELSE [num |-> TRUE, m |-> m, e |-> e]

IsDigitCh(c) == c \in UDigit

\* float(x) for x of the NUM_FP grammar: the value of the decimal numeral
Float(x) ==
    LET ePos == IndexOf(x, {"e", "E"})
        mant == IF ePos = 0 THEN x ELSE SubSeq(x, 1, ePos - 1)
        expo == IF ePos = 0 THEN <<>> ELSE SubSeq(x, ePos + 1, Len(x))
        dot  == IndexOf(mant, {"."})
        frac == IF dot = 0 THEN 0 ELSE Len(mant) - dot
        ex   == IF expo # <<>> /\ Head(expo) = "-"
                THEN 0 - DigitsVal(SelectSeq(expo, IsDigitCh))
                ELSE DigitsVal(SelectSeq(expo, IsDigitCh))
    IN  Canon(DigitsVal(SelectSeq(mant, IsDigitCh)), ex - frac)

Str(x) == [num |-> FALSE, s |-> x]

\* seeded fault (C1): no string is read as a number
to_num_fault(x) == Str(x)

\* _to_num: a float when the stripped string is of the NUM_FP grammar, else
\* the string itself
to_num(x) == IF FullMatch(NUM_FP, Strip(x), TRUE) THEN Float(Strip(x)) ELSE Str(x)

\* sorted(...) of parameter names
ParamOrder == <<"batch_size", "dropout", "epochs", "learning_rate">>

Get(map, key) == IF key \in DOMAIN map THEN map[key] ELSE NotFound

\* seeded fault (C2): a row for every parameter of the tables
KeyUnion_fault(paper_hyperparams, code_hyperparams) ==
    {"batch_size", "dropout", "epochs", "learning_rate"}

KeyUnion(paper_hyperparams, code_hyperparams) ==
    DOMAIN paper_hyperparams \cup DOMAIN code_hyperparams

\* param_keys = sorted(list(set(paper.keys()) | set(code.keys())))
param_keys(paper_hyperparams, code_hyperparams) ==
    LET keys == KeyUnion(paper_hyperparams, code_hyperparams)
        IsKey(p) == p \in keys
    IN  SelectSeq(ParamOrder, IsKey)

\* match = paper_val == code_val and paper_val != "Not Found"
Matches(paper_val, code_val) == paper_val = code_val /\ paper_val # Str(NotFound)

\* paper_val = _to_num(paper_val_raw); code_val = _to_num(code_val_raw); match
IsMatch(paper_val_raw, code_val_raw) == Matches(to_num(paper_val_raw), to_num(code_val_raw))

\* src/app.py: match = paper_val == code_val
IsMatch_0(paper_val, code_val) == paper_val = code_val

Row(key, paper_hyperparams, code_hyperparams, match) ==
    [Parameter |-> key, Paper |-> Get(paper_hyperparams, key),
     Code |-> Get(code_hyperparams, key), Match |-> match]

comparison_rows(paper_hyperparams, code_hyperparams) ==
    LET keys == param_keys(paper_hyperparams, code_hyperparams)
    IN  [k \in DOMAIN keys |->
           Row(keys[k], paper_hyperparams, code_hyperparams,
               IsMatch(Get(paper_hyperparams, keys[k]), Get(code_hyperparams, keys[k])))]

comparison_rows_0(paper_hyperparams, code_hyperparams) ==
    LET keys == param_keys(paper_hyperparams, code_hyperparams)
    IN  [k \in DOMAIN keys |->
           Row(keys[k], paper_hyperparams, code_hyperparams,
               IsMatch_0(Get(paper_hyperparams, keys[k]), Get(code_hyperparams, keys[k])))]

\* ------------------------------------------------------------------------
\* generate_report: sorted() of strings compares code points.
\* ------------------------------------------------------------------------
CodePoints == <<".", "0", "1", "2", "3", "4", "5", "6", "7", "8", "9", "A", "B", "C", "D", "E", "F", "G", "H", "I", "J", "K", "L", "M", "N", "O", "P", "Q", "R", "S", "T", "U", "V", "W", "X", "Y", "Z", "_", "a", "b", "c", "d", "e", "f", "g", "h", "i", "j", "k", "l", "m", "n", "o", "p", "q", "r", "s", "t", "u", "v", "w", "x", "y", "z", "LONGS">>

Rank(c) == IF c \in Range(CodePoints)
           THEN CHOOSE k \in DOMAIN CodePoints : CodePoints[k] = c
           ELSE 0

RECURSIVE StrLess(_, _)
\* a < b on strings
StrLess(a, b) ==
    IF b = <<>> THEN FALSE
    ELSE IF a = <<>> THEN TRUE
    ELSE IF Head(a) = Head(b) THEN StrLess(Tail(a), Tail(b))
    ELSE Rank(Head(a)) < Rank(Head(b))

RECURSIVE Insert(_, _)
Insert(x, sorted) ==
    IF sorted = <<>> THEN <<x>>
    ELSE IF StrLess(x, Head(sorted)) THEN <<x>> \o sorted
    ELSE <<Head(sorted)>> \o Insert(x, Tail(sorted))

RECURSIVE Sorted(_)
\* sorted(list): every element kept, equal ones too
Sorted(s) == IF s = <<>> THEN <<>> ELSE Insert(s[Len(s)], Sorted(SubSeq(s, 1, Len(s) - 1)))

RECURSIVE SetToSeq(_)
SetToSeq(S) == IF S = {} THEN <<>>
               ELSE LET x == CHOOSE y \in S : TRUE IN <<x>> \o SetToSeq(S \ {x})

\* sorted(set)
SortedSet(S) == Sorted(SetToSeq(S))

\* seeded fault (C8): the functions as accumulated
functions_sorted_fault(functions) == functions

functions_sorted(functions) == Sorted(functions)

imports_unique(imports) == SortedSet(Range(imports))

\* the facts generate_report of src/app1_py.py prints, in the order printed
generate_report(functions, imports, seeds, pdf_kw, matched_kw, rows) ==
    [seed |-> IF seeds THEN "Yes" ELSE "No",
     matched |-> Cardinality(matched_kw),
     total |-> Cardinality(pdf_kw),
     missing |-> SortedSet(pdf_kw \ matched_kw),
     rows |-> rows,
     functions |-> functions_sorted(functions),
     imports |-> imports_unique(imports)]

\* generate_report of src/app.py: the functions as accumulated; the missing
\* keywords and the imports joined from a set, in no specified order;
\* ', '.join raises on a None among the imports
generate_report_0(functions, imports, seeds, pdf_kw, matched_kw, rows) ==
    IF <<None>> \in Range(imports) THEN [crashed |-> TRUE]
    ELSE [seed |-> IF seeds THEN "Yes" ELSE "No",
          matched |-> Cardinality(matched_kw),
          total |-> Cardinality(pdf_kw),
          missing |-> pdf_kw \ matched_kw,
          rows |-> rows,
          functions |-> functions,
          imports |-> Range(imports)]

\* ------------------------------------------------------------------------
\* The files a user can upload.  PdfText is the text fitz extracts from a
\* paper; Source is the decoded content of a code file, line by line.
\* ------------------------------------------------------------------------
PaperIds == {"p_lr", "p_epochs", "p_odd", "p_plain", "p_longs", "p_corrupt"}

\* fitz.open raises on these
CorruptPapers == {"p_corrupt"}

PdfText(file) ==
    CASE file = "p_lr" ->
         <<"W", "e", " ", "u", "s", "e", " ", "a", " ", "l", "e", "a", "r", "n", "i", "n", "g", " ", "r", "a", "t", "e", " ", "o", "f", " ", "0", ".", "0", "1", " ", "a", "n", "d", " ", "b", "a", "t", "c", "h", " ", "s", "i", "z", "e", " ", "o", "f", " ", "3", "2", ".", "\n", "T", "h", "e", " ", "M", "o", "d", "e", "l", " ", "u", "s", "e", "s", " ", "a", "t", "t", "e", "n", "t", "i", "o", "n", " ", "l", "a", "y", "e", "r", "s", ".">>
      [] file = "p_epochs" ->
         <<"e", "p", "o", "c", "h", "s", " ", "=", " ", "5", ";", " ", "t", "r", "a", "i", "n", "e", "d", " ", "f", "o", "r", " ", "1", "0", " ", "e", "p", "o", "c", "h", "s", " ", "w", "i", "t", "h", " ", "d", "r", "o", "p", "o", "u", "t", " ", "o", "f", " ", ".", "5", ",", " ", "l", "e", "a", "r", "n", "i", "n", "g", " ", "r", "a", "t", "e", " ", "i", "s", " ", "1", "e", "-", "2", ".", " ", "m", "o", "d", "e", "l", "i", "n", "g", " ", "t", "o", "k", "e", "n", "s", ",", " ", "l", "o", "s", "s">>
      [] file = "p_odd" ->
         <<"l", "e", "a", "r", "n", "i", "n", "g", "ZWSP", "r", "a", "t", "e", " ", "o", "f", " ", "0", ".", "0", "2", ",", " ", "b", "a", "t", "c", "h", "-", "s", "i", "z", "e", " ", "o", "f", " ", "AD3", "AD2">>
      [] file = "p_plain" ->
         <<"A", " ", "t", "r", "a", "n", "s", "f", "o", "r", "m", "e", "r", " ", "m", "o", "d", "e", "l", ".">>
      [] file = "p_longs" ->
         <<"L", "o", "LONGS", "s", " ", "o", "f", " ", "t", "h", "e", " ", "M", "o", "d", "e", "l", ".">>
      [] OTHER -> <<>>

CodeIds == {"c_train", "c_config", "c_broken", "c_net", "c_misc"}

Ln(ind, kind, arg) == [ind |-> ind, kind |-> kind, arg |-> arg]

Source(content) ==
    CASE content = "c_train" ->
         <<Ln(0, "import", <<"t", "o", "r", "c", "h">>),
           Ln(0, "def", <<"t", "r", "a", "i", "n">>),
           Ln(1, "stmt", <<"l", "e", "a", "r", "n", "i", "n", "g", "_", "r", "a", "t", "e", " ", "=", " ", "1", "e", "-", "2">>),
           Ln(1, "stmt", <<"m", "o", "d", "e", "l", " ", "=", " ", "a", "t", "t", "e", "n", "t", "i", "o", "n", "(", "x", ")">>)>>
      [] content = "c_config" ->
         <<Ln(0, "stmt", <<"l", "r", " ", "=", " ", "0", ".", "0", "2">>),
           Ln(0, "stmt", <<"l", "e", "a", "r", "n", "i", "n", "g", "_", "r", "a", "t", "e", " ", "=", " ", "0", ".", "0", "1">>),
           Ln(0, "stmt", <<"b", "a", "t", "c", "h", "_", "s", "i", "z", "e", " ", "=", " ", "3", "2">>),
           Ln(0, "stmt", <<"r", "a", "n", "d", "o", "m", ".", "s", "e", "e", "d", "(", "0", ")">>)>>
      [] content = "c_broken" ->
         <<Ln(0, "stmt", <<"t", "o", "r", "c", "h", ".", "m", "a", "n", "u", "a", "l", "_", "s", "e", "e", "d", "(", "1", ")">>),
           Ln(0, "stmt", <<"l", "r", " ", "=", " ", "0", ".", "0", "1">>),
           Ln(0, "stmt", <<"M", "o", "d", "e", "l", " ", "=", " ", "T", "r", "a", "n", "s", "f", "o", "r", "m", "e", "r", "(">>)>>
      [] content = "c_net" ->
         <<Ln(0, "from", <<".">>),
           Ln(0, "class", <<"N", "e", "t">>),
           Ln(1, "def", <<"f", "o", "r", "w", "a", "r", "d">>),
           Ln(2, "stmt", <<"p", "a", "s", "s">>),
           Ln(0, "def", <<"t", "r", "a", "i", "n">>),
           Ln(1, "stmt", <<"s", " ", "=", " ", "\"", "b", "a", "t", "c", "h", "_", "s", "i", "z", "e", " ", "=", " ", "AD3", "AD2", "\"">>)>>
      [] content = "c_misc" ->
         <<Ln(0, "import", <<"t", "o", "r", "c", "h">>),
           Ln(0, "from", <<"o", "s">>),
           Ln(0, "stmt", <<"D", "r", "o", "p", "o", "u", "t", " ", "=", " ", ".", "5">>),
           Ln(0, "stmt", <<"e", "p", "o", "c", "h", "s", "=", "1", "0">>),
           Ln(0, "stmt", <<"l", "r", "=", "0", ".", "0", "1", "0">>),
           Ln(0, "stmt", <<"t", "o", "k", "e", "n", "_", "m", "o", "d", "e", "l", " ", "=", " ", "1">>),
           Ln(0, "stmt", <<"l", "o", "s", "s", " ", "=", " ", "0">>)>>

\* extract_pdf_data of src/app1_py.py (the preview text is not modelled)
extract_pdf_data(file) ==
    IF file = None \/ file \in CorruptPapers THEN PdfFailed
    ELSE LET full_text == normalize_spaces(PdfText(file))
         IN  [keywords |-> paper_keywords_of(full_text),
              hyperparameters |->
                  extract_hyperparameters(PAPER_HYPERPARAMETER_PATTERNS, full_text, TRUE),
              error |-> FALSE]

\* extract_pdf_data of src/app.py
extract_pdf_data_0(file) ==
    IF file = None \/ file \in CorruptPapers THEN PdfFailed
    ELSE LET full_text == PdfText(file)
         IN  [keywords |-> paper_keywords_of_0(full_text),
              hyperparameters |->
                  extract_hyperparameters(PAPER_HYPERPARAMETER_PATTERNS_0, full_text, TRUE),
              error |-> FALSE]

Variants == {"app", "app1"}

\* The two functions are pure: their values on the files above are computed
\* once and looked up.
PdfData ==
    <<>> @@ [v \in Variants, f \in PaperIds \cup {None} |->
               IF v = "app1" THEN extract_pdf_data(f) ELSE extract_pdf_data_0(f)]

KeywordSets == {PdfData[v, f].keywords : v \in Variants, f \in PaperIds \cup {None}}

Analysis ==
    <<>> @@ [v \in Variants, c \in CodeIds, kws \in KeywordSets |->
               IF v = "app1" THEN analyze_python_code(Source(c), kws)
               ELSE analyze_python_code_0(Source(c), kws)]

PdfOf(v, file) == PdfData[v, file]

AnalysisOf(v, content, paper_keywords) == Analysis[v, content, paper_keywords]

\* ------------------------------------------------------------------------
\* The script as a state machine.  Streamlit runs the script from the top on
\* every widget event (a rerun); only st.session_state survives a rerun.
\* A rerun is split at the analysis loop: the event and lines 176-203 of
\* src/app1_py.py (128-155 of src/app.py), one step per iteration of the
\* loop, and the rest of the script.
\* ------------------------------------------------------------------------
\* the most code files the model uploads at a time
MaxUnits == 2

FileNames == {"a.py", "b.py"}

VARIABLES
    variant,                \* which of the two source files runs
    uploaded_paper,         \* the paper uploader's value: a paper or None
    uploaded_code,          \* the code uploader's value: files [name, content]
    analysis_done,          \* st.session_state.analysis_done
    analyze_button,         \* the button's value in this rerun
    warned,                 \* st.warning("Please upload both ...") was shown
    extracted,              \* extract_pdf_data was called in this rerun
    pc,                     \* "idle": the rerun has ended; "loop": in the loop
    idx,                    \* the next entry of file_contents to analyze
    pdf_keywords, paper_hyperparams,
    file_contents,          \* the dict of line 203, as its items in order
    all_functions, all_imports, all_matched_keywords, seeds_used,
    code_hyperparams,
    last,                   \* what analyze_python_code returned last
    errors,                 \* the st.error calls of this rerun, in order
    rows,                   \* the comparison rows (hyperparameter_df)
    report                  \* what generate_report returned

ui == <<variant, uploaded_paper, uploaded_code, analysis_done, analyze_button, warned>>

locals == <<extracted, pc, idx, pdf_keywords, paper_hyperparams, file_contents,
            all_functions, all_imports, all_matched_keywords, seeds_used,
            code_hyperparams, last, errors, rows, report>>

vars == <<ui, locals>>

NoResult == [called |-> FALSE]

NoReport == [shown |-> FALSE]

\* if analyze_button and (not uploaded_paper or not uploaded_code)
PreconditionFails(paper, code) == paper = None \/ code = <<>>

\* seeded fault (C7): the analysis runs whenever analysis_done is set
ShouldRun_fault(done, paper, code) == done

\* if st.session_state.analysis_done and uploaded_paper and uploaded_code
ShouldRun(done, paper, code) == done /\ paper # None /\ code # <<>>

RECURSIVE FileContents(_)
\* {file.name: file.read().decode(...) for file in uploaded_code}: a name
\* keeps the place of its first file and the content of its last
FileContents(code) ==
    IF code = <<>> THEN <<>>
    ELSE LET before == FileContents(SubSeq(code, 1, Len(code) - 1))
             f == code[Len(code)]
         IN  IF \E k \in DOMAIN before : before[k].name = f.name
             THEN [k \in DOMAIN before |->
                     IF before[k].name = f.name THEN f ELSE before[k]]
             ELSE Append(before, f)

\* seeded fault (C6): the flag of the last unit
MergeSeed_fault(flag, seed) == seed

\* if seed: seeds_used = True
MergeSeed(flag, seed) == IF seed THEN TRUE ELSE flag

\* for key, val in hypers.items(): if key not in code_hyperparams: ...[key] = val
MergeHypers(acc, hypers) ==
    [k \in DOMAIN acc \cup DOMAIN hypers |-> IF k \in DOMAIN acc THEN acc[k] ELSE hypers[k]]

Init ==
    /\ variant \in Variants
    /\ uploaded_paper = None
    /\ uploaded_code = <<>>
    /\ analysis_done = FALSE
    /\ analyze_button = FALSE
    /\ warned = FALSE
    /\ extracted = FALSE
    /\ pc = "idle"
    /\ idx = 0
    /\ pdf_keywords = {}
    /\ paper_hyperparams = EmptyMap
    /\ file_contents = <<>>
    /\ all_functions = <<>>
    /\ all_imports = <<>>
    /\ all_matched_keywords = {}
    /\ seeds_used = FALSE
    /\ code_hyperparams = EmptyMap
    /\ last = NoResult
    /\ errors = <<>>
    /\ rows = <<>>
    /\ report = NoReport

\* the else branch of the script: st.info, nothing analyzed
ShowInfo ==
    /\ extracted' = FALSE
    /\ pc' = "idle"
    /\ idx' = 0
    /\ pdf_keywords' = {}
    /\ paper_hyperparams' = EmptyMap
    /\ file_contents' = <<>>
    /\ all_functions' = <<>>
    /\ all_imports' = <<>>
    /\ all_matched_keywords' = {}
    /\ seeds_used' = FALSE
    /\ code_hyperparams' = EmptyMap
    /\ last' = NoResult
    /\ errors' = <<>>
    /\ rows' = <<>>
    /\ report' = NoReport

\* the paper analysis and the setup of the loop
StartAnalysis(pdf, code) ==
    /\ extracted' = TRUE
    /\ pc' = "loop"
    /\ idx' = 1
    /\ pdf_keywords' = pdf.keywords
    /\ paper_hyperparams' = pdf.hyperparameters
    /\ file_contents' = FileContents(code)
    /\ all_functions' = <<>>
    /\ all_imports' = <<>>
    /\ all_matched_keywords' = {}
    /\ seeds_used' = FALSE
    /\ code_hyperparams' = EmptyMap
    /\ last' = NoResult
    /\ errors' = IF pdf.error THEN <<"pdf">> ELSE <<>>
    /\ rows' = <<>>
    /\ report' = NoReport

\* a rerun with the widgets at (paper, code, button), up to the loop
Script(paper, code, button) ==
    /\ pc = "idle"
    /\ variant' = variant
    /\ uploaded_paper' = paper
    /\ uploaded_code' = code
    /\ analyze_button' = button
    /\ warned' = (button /\ PreconditionFails(paper, code))
    /\ analysis_done' = IF button /\ ~PreconditionFails(paper, code)
                        THEN TRUE ELSE analysis_done
    /\ IF ShouldRun(analysis_done', paper, code)
       THEN StartAnalysis(PdfOf(variant, paper), code)
       ELSE ShowInfo

UploadPaper ==
    \E f \in PaperIds : f # uploaded_paper /\ Script(f, uploaded_code, FALSE)

RemovePaper == uploaded_paper # None /\ Script(None, uploaded_code, FALSE)

AddCode ==
    \E n \in FileNames, c \in CodeIds :
        /\ Len(uploaded_code) < MaxUnits
        /\ Script(uploaded_paper, Append(uploaded_code, [name |-> n, content |-> c]), FALSE)

RemoveAt(s, i) == SubSeq(s, 1, i - 1) \o SubSeq(s, i + 1, Len(s))

RemoveCode ==
    \E i \in DOMAIN uploaded_code :
        Script(uploaded_paper, RemoveAt(uploaded_code, i), FALSE)

ClickAnalyze == pc = "idle" /\ Script(uploaded_paper, uploaded_code, TRUE)

\* seeded fault (C4): a unit that fails discards what the units before it
\* contributed
Accumulate_fault(name, r) ==
    /\ all_functions' = IF r.error THEN <<>> ELSE all_functions \o r.functions
    /\ all_imports' = IF r.error THEN <<>> ELSE all_imports \o r.imports
    /\ all_matched_keywords' = IF r.error THEN {} ELSE all_matched_keywords \cup r.matched
    /\ seeds_used' = MergeSeed(seeds_used, r.seed)
    /\ code_hyperparams' = MergeHypers(code_hyperparams, r.hypers)
    /\ last' = r
    /\ errors' = IF r.error THEN Append(errors, name) ELSE errors

\* the body of the loop for the unit `name` whose analysis returned r
Accumulate(name, r) ==
    /\ all_functions' = all_functions \o r.functions
    /\ all_imports' = all_imports \o r.imports
    /\ all_matched_keywords' = all_matched_keywords \cup r.matched
    /\ seeds_used' = MergeSeed(seeds_used, r.seed)
    /\ code_hyperparams' = MergeHypers(code_hyperparams, r.hypers)
    /\ last' = r
    /\ errors' = IF r.error THEN Append(errors, name) ELSE errors

\* one iteration of: for name, content in file_contents.items()
LoopStep ==
    /\ pc = "loop"
    /\ idx <= Len(file_contents)
    /\ Accumulate(file_contents[idx].name,
                  AnalysisOf(variant, file_contents[idx].content, pdf_keywords))
    /\ idx' = idx + 1
    /\ UNCHANGED <<ui, extracted, pc, pdf_keywords, paper_hyperparams, file_contents,
                   rows, report>>

\* src/app.py joins set(imports) in the file-by-file section: a None among a
\* unit's imports raises there and ends the script
Raises(v, r) == v = "app" /\ <<None>> \in Range(r.imports)

RECURSIVE DetailStop(_, _, _, _)
\* the entry at which the file-by-file loop ends: the first that raises, or
\* the last one
DetailStop(v, contents, kws, k) ==
    IF k >= Len(contents) THEN Len(contents)
    ELSE IF Raises(v, AnalysisOf(v, contents[k].content, kws)) THEN k
    ELSE DetailStop(v, contents, kws, k + 1)

\* the names of the units among the first `stop` whose analysis failed
FailedNames(again, stop) ==
    LET IsFailed(k) == again[k].error
        failed == SelectSeq([k \in 1..stop |-> k], IsFailed)
    IN  [j \in DOMAIN failed |-> file_contents[failed[j]].name]

\* the rest of the script, the file-by-file loop having ended at entry
\* `stop` and again[k] being the analysis of entry k there
Show(stop, again) ==
    /\ rows' = IF variant = "app1"
               THEN comparison_rows(paper_hyperparams, code_hyperparams)
               ELSE comparison_rows_0(paper_hyperparams, code_hyperparams)
    /\ errors' = errors \o FailedNames(again, stop)
    /\ last' = IF stop = 0 THEN last ELSE again[stop]
    /\ report' = IF variant = "app1"
                 THEN generate_report(all_functions, all_imports, seeds_used,
                                      pdf_keywords, all_matched_keywords, rows')
                 ELSE generate_report_0(all_functions, all_imports, seeds_used,
                                        pdf_keywords, all_matched_keywords, rows')

\* the dashboard, the comparison rows, the file-by-file section (which
\* analyzes every unit once more) and the report
Present ==
    /\ pc = "loop"
    /\ idx > Len(file_contents)
    /\ Show(DetailStop(variant, file_contents, pdf_keywords, 1),
            [k \in DOMAIN file_contents |->
               AnalysisOf(variant, file_contents[k].content, pdf_keywords)])
    /\ pc' = "idle"
    /\ UNCHANGED <<ui, extracted, idx, pdf_keywords, paper_hyperparams, file_contents,
                   all_functions, all_imports, all_matched_keywords, seeds_used,
                   code_hyperparams>>

Next ==
    \/ UploadPaper
    \/ RemovePaper
    \/ AddCode
    \/ RemoveCode
    \/ ClickAnalyze
    \/ LoopStep
    \/ Present

Spec == Init /\ [][Next]_vars

\* ------------------------------------------------------------------------
\* Properties.  A seeded fault (an operator named ..._fault, defined before
\* the operator it replaces) shows that a property can fail.
\* ------------------------------------------------------------------------
RECURSIVE Pow10(_)
Pow10(n) == IF n = 0 THEN 1 ELSE 10 * Pow10(n - 1)

Min(a, b) == IF a <= b THEN a ELSE b

\* x.m * 10^x.e and y.m * 10^y.e are the same number
SameNumber(x, y) ==
    x.m * Pow10(x.e - Min(x.e, y.e)) = y.m * Pow10(y.e - Min(x.e, y.e))

\* the string is of the unified numeric grammar
IsNumeral(x) == FullMatch(NUM_FP, Strip(x), TRUE)

\* equal under normalization: as numbers if both are numerals, else as strings
NormalizedEqual(a, b) ==
    IF IsNumeral(a) /\ IsNumeral(b)
    THEN SameNumber(Float(Strip(a)), Float(Strip(b)))
    ELSE a = b

BothPresent(row) == row.Paper # NotFound /\ row.Code # NotFound

\* C1: in src/app1_py.py a comparison row with both values present is marked
\* matched if and only if the two values are equal under normalization:
\* numerals of the NUM_FP grammar are compared as numbers ("0.01" and "1e-2"
\* match), anything else as exact strings.
C1_MatchedIffNormalizedEqual ==
    variant = "app1" =>
        \A k \in DOMAIN rows :
            BothPresent(rows[k]) =>
                (rows[k].Match <=> NormalizedEqual(rows[k].Paper, rows[k].Code))

\* a row matched although its two strings differ, beside a row with both
\* values present that is not matched
C1_Witness ==
    /\ variant = "app1"
    /\ \E k \in DOMAIN rows :
           BothPresent(rows[k]) /\ rows[k].Match /\ rows[k].Paper # rows[k].Code
    /\ \E k \in DOMAIN rows : BothPresent(rows[k]) /\ ~rows[k].Match

\* C2: in both files a comparison row whose paper value or code value is
\* "Not Found" is never marked matched; in particular no row is matched with
\* both sides "Not Found".
C2_NotFoundNeverMatched ==
    \A k \in DOMAIN rows :
        (rows[k].Paper = NotFound \/ rows[k].Code = NotFound) => ~rows[k].Match

\* src/app.py has shown a row without a paper value and one without a code value
C2_Witness ==
    /\ variant = "app"
    /\ \E k \in DOMAIN rows : rows[k].Paper = NotFound /\ rows[k].Code # NotFound
    /\ \E k \in DOMAIN rows : rows[k].Code = NotFound /\ rows[k].Paper # NotFound

\* the number of units the loop has analyzed
Done == IF idx = 0 THEN 0 ELSE idx - 1

\* what analyze_python_code returned for entry k of file_contents
Result(k) == AnalysisOf(variant, file_contents[k].content, pdf_keywords)

\* ast.parse raises a SyntaxError on the unit's text
HasSyntaxError(content) == ~ast_parse(Source(content)).ok

\* what the text-based extraction gives on the text of each code file
TextSignals ==
    <<>> @@ [v \in Variants, c \in CodeIds, kws \in KeywordSets |->
               IF v = "app1" THEN text_signals(FileText(Source(c)), kws)
               ELSE text_signals_0(FileText(Source(c)), kws)]

\* C3: a unit with a syntax error is structurally empty (no functions, no
\* imports), but its seed flag, matched keywords and hyperparameters are
\* those the text-based extraction gives on its raw content.
C3_SyntaxErrorKeepsTextSignals ==
    (pc = "loop" /\ idx > 1 /\ HasSyntaxError(file_contents[idx - 1].content)) =>
        /\ last.functions = <<>>
        /\ last.imports = <<>>
        /\ last.seed = TextSignals[variant, file_contents[idx - 1].content, pdf_keywords].seed
        /\ last.matched = TextSignals[variant, file_contents[idx - 1].content, pdf_keywords].matched
        /\ last.hypers = TextSignals[variant, file_contents[idx - 1].content, pdf_keywords].hypers

\* The aggregates of a sequence rs of analysis results.
SumFunctions(rs) == Flatten([k \in DOMAIN rs |-> rs[k].functions])

SumImports(rs) == Flatten([k \in DOMAIN rs |-> rs[k].imports])

SumMatched(rs) == UNION {rs[k].matched : k \in DOMAIN rs}

SomeSeed(rs) == \E k \in DOMAIN rs : rs[k].seed

\* the first result that has a value for p
FirstWith(rs, p) ==
    CHOOSE k \in DOMAIN rs :
        p \in DOMAIN rs[k].hypers /\ \A j \in 1..(k - 1) : p \notin DOMAIN rs[j].hypers

FirstWins(rs) ==
    [p \in UNION {DOMAIN rs[k].hypers : k \in DOMAIN rs} |-> rs[FirstWith(rs, p)].hypers[p]]

\* the results of the units analyzed so far, and those of them that parsed
Analyzed == [k \in 1..Done |-> Result(k)]

Parsed(r) == ~r.error

\* C4: in the analysis loop a unit with a syntax error yields empty function
\* and import lists and a recorded error, the loop goes on, and the
\* aggregates are exactly what the other units contribute without it.
C4_ParseFailureIsolated ==
    /\ \A k \in 1..Done :
           HasSyntaxError(file_contents[k].content) =>
               /\ Result(k).functions = <<>>
               /\ Result(k).imports = <<>>
               /\ file_contents[k].name \in Range(errors)
    /\ all_functions = SumFunctions(SelectSeq(Analyzed, Parsed))
    /\ all_imports = SumImports(SelectSeq(Analyzed, Parsed))
    /\ all_matched_keywords = SumMatched(SelectSeq(Analyzed, Parsed))
    /\ seeds_used = SomeSeed(SelectSeq(Analyzed, Parsed))
    /\ code_hyperparams = FirstWins(SelectSeq(Analyzed, Parsed))

\* the loop has gone past a unit with a syntax error and the unit after it
\* has contributed its functions, keywords and hyperparameters
C4_Witness ==
    /\ pc = "loop"
    /\ Done = 2
    /\ HasSyntaxError(file_contents[1].content)
    /\ file_contents[1].name \in Range(errors)
    /\ all_functions # <<>>
    /\ all_matched_keywords # {}
    /\ code_hyperparams # EmptyMap

\* C5: after the loop the merged code-side value of every hyperparameter is
\* the value of the first unit, in the order the units were supplied, whose
\* extraction yields it; a parameter found in any supplied unit is present.
C5_FirstSuppliedUnitWins ==
    (pc = "loop" /\ idx > Len(file_contents)) =>
        code_hyperparams =
            FirstWins([k \in DOMAIN uploaded_code |->
                         AnalysisOf(variant, uploaded_code[k].content, pdf_keywords)])

\* C6: seeds_used is true if and only if the analysis of at least one unit
\* set its flag; it starts false and no later unit resets it.
C6_SeedsUsedIsTheOr == seeds_used = SomeSeed(Analyzed)

\* the flag set by the first unit has survived a second unit without a seed
C6_Witness ==
    /\ pc = "loop"
    /\ Done = 2
    /\ Result(1).seed
    /\ ~Result(2).seed
    /\ seeds_used

\* extraction and analysis run only with a paper and a code unit supplied
Gated ==
    (extracted \/ pc = "loop") => (uploaded_paper # None /\ uploaded_code # <<>>)

\* a rerun in which Analyze is clicked while the paper or the code is missing
\* warns, leaves analysis_done as it was and extracts nothing
ClickWithoutInputs ==
    (analyze_button' /\ PreconditionFails(uploaded_paper', uploaded_code')) =>
        (warned' /\ analysis_done' = analysis_done /\ ~extracted' /\ pc' = "idle")

\* C7: over any sequence of reruns, extraction and code analysis run only in
\* a rerun in which both a paper and at least one code unit are supplied;
\* clicking Analyze while either is missing shows the warning, does not set
\* analysis_done and runs no extraction.
C7_ExtractionIsGated == []Gated /\ [][ClickWithoutInputs]_vars

\* Analyze was clicked with code but no paper: warned, nothing set or run
C7_Witness ==
    /\ analyze_button
    /\ warned
    /\ uploaded_paper = None
    /\ uploaded_code # <<>>
    /\ ~analysis_done
    /\ ~extracted

Ascending(s) == \A k \in 1..(Len(s) - 1) : ~StrLess(s[k + 1], s[k])

StrictlyAscending(s) == \A k \in 1..(Len(s) - 1) : StrLess(s[k], s[k + 1])

Occurrences(s, x) == Cardinality({k \in DOMAIN s : s[k] = x})

\* the imports and the missing keywords of the report: sorted, no duplicates
ImportsAndMissingSortedUnique ==
    /\ StrictlyAscending(report.imports)
    /\ Range(report.imports) = Range(all_imports)
    /\ StrictlyAscending(report.missing)
    /\ Range(report.missing) = pdf_keywords \ all_matched_keywords

\* C8 as stated: the report of src/app1_py.py lists the function names sorted
\* without duplicates, the imports sorted without duplicates and the missing
\* keywords in alphabetical order.
C8_SortedUniqueLists ==
    (variant = "app1" /\ report # NoReport) =>
        /\ StrictlyAscending(report.functions)
        /\ Range(report.functions) = Range(all_functions)
        /\ ImportsAndMissingSortedUnique

\* C8, amended: the report of src/app1_py.py lists the function names sorted
\* with one entry for each definition accumulated (a name defined twice is
\* listed twice), the imports sorted without duplicates and the missing
\* keywords in alphabetical order.
C8_SortedFunctionsKeepDuplicates ==
    (variant = "app1" /\ report # NoReport) =>
        /\ Ascending(report.functions)
        /\ \A x \in Range(all_functions) \cup Range(report.functions) :
               Occurrences(report.functions, x) = Occurrences(all_functions, x)
        /\ ImportsAndMissingSortedUnique

\* a report with a function name listed twice, of functions accumulated out
\* of order, with imports and a missing keyword
C8_Witness ==
    /\ variant = "app1"
    /\ report # NoReport
    /\ \E k \in 1..(Len(report.functions) - 1) : report.functions[k] = report.functions[k + 1]
    /\ report.functions # all_functions
    /\ report.imports # <<>>
    /\ report.missing # <<>>

\* the same letter, whatever the case
SameLetter(c, d) == Lower(c) = Lower(d)

\* the term occurs in the text as a whole word, case-insensitively
OccursAsWord(term, text) ==
    \E i \in 1..(Len(text) - Len(term) + 1) :
        /\ \A k \in DOMAIN term : SameLetter(text[i + k - 1], term[k])
        /\ ~IsWordAt(text, i - 1)
        /\ ~IsWordAt(text, i + Len(term))

\* C9: the paper-side keyword set of src/app1_py.py is a subset of the
\* lowercase vocabulary and contains a term if and only if the term occurs in
\* the paper's text as a whole word, case-insensitively; the code-side
\* matched set of every code text is decided by the same rule.
C9_WholeWordKeywords ==
    variant = "app1" =>
        /\ (extracted /\ uploaded_paper \notin CorruptPapers) =>
               /\ pdf_keywords \subseteq Range(Vocabulary)
               /\ \A term \in Range(Vocabulary) :
                      term \in pdf_keywords <=> OccursAsWord(term, PdfText(uploaded_paper))
        /\ (pc = "loop" /\ idx > 1) =>
               last.matched =
                   {kw \in pdf_keywords :
                       OccursAsWord(kw, FileText(Source(file_contents[idx - 1].content)))}

\* the first pattern of the list that matches somewhere in the text
FirstMatching(patterns, text) ==
    CHOOSE k \in DOMAIN patterns :
        /\ Search(patterns[k], text, TRUE).found
        /\ \A j \in 1..(k - 1) : ~Search(patterns[j], text, TRUE).found

\* for each parameter with a matching pattern, group 1 of the first pattern
\* that matches
ByPrecedence(table, text) ==
    [p \in {q \in Params : \E k \in DOMAIN table[q] : Search(table[q][k], text, TRUE).found} |->
        Search(table[p][FirstMatching(table[p], text)], text, TRUE).g1]

PaperByPrecedence ==
    <<>> @@ [f \in PaperIds \ CorruptPapers |->
               ByPrecedence(PAPER_HYPERPARAMETER_PATTERNS, normalize_spaces(PdfText(f)))]

CodeByPrecedence ==
    <<>> @@ [c \in CodeIds |-> ByPrecedence(HYPERPARAMETER_PATTERNS, FileText(Source(c)))]

\* C10: hyperparameter extraction of src/app1_py.py, on the paper's text and
\* on every code text, records for each parameter group 1 of the first
\* pattern, in table order, that matches anywhere in the text; a parameter
\* without a matching pattern is absent.
C10_FirstPatternWins ==
    variant = "app1" =>
        /\ (extracted /\ uploaded_paper \notin CorruptPapers) =>
               paper_hyperparams = PaperByPrecedence[uploaded_paper]
        /\ (pc = "loop" /\ idx > 1) =>
               last.hypers = CodeByPrecedence[file_contents[idx - 1].content]

IsDefLine(l) == l.kind = "def"

\* the names of the functions a unit defines, by the position of each
\* definition in its text
DeclarationOrder(lines) ==
    LET defs == SelectSeq(lines, IsDefLine)
    IN  [k \in DOMAIN defs |-> defs[k].arg]

\* C11: for a unit that parses, analyze_python_code returns the names of the
\* functions the unit defines in declaration order (by the position of each
\* definition in the text), also for functions nested in classes or in
\* other functions.
C11_FunctionsInDeclarationOrder ==
    (pc = "loop" /\ idx > 1 /\ ~HasSyntaxError(file_contents[idx - 1].content)) =>
        last.functions = DeclarationOrder(Source(file_contents[idx - 1].content))

\* missing_keywords = sorted(pdf_keywords - all_matched_keywords), on the dashboard
missing_keywords(pdf_kw, matched_kw) == SortedSet(pdf_kw \ matched_kw)

\* the matched set and the missing set split the paper's keyword set in two
SplitsPaperKeywords(matched, missing) ==
    /\ matched \subseteq pdf_keywords
    /\ matched \cap missing = {}
    /\ matched \cup missing = pdf_keywords

\* C12: during and after the analysis loop, over any units in any order, the
\* accumulated matched keywords are a subset of the paper's keywords, and
\* the matched and the missing keywords are disjoint and together are the
\* paper's keywords; in the report of src/app1_py.py the number matched is
\* at most the number of paper keywords and, with the number of missing
\* keywords, adds up to it.
C12_MatchedAndMissingSplitPaperKeywords ==
    /\ SplitsPaperKeywords(all_matched_keywords,
                           Range(missing_keywords(pdf_keywords, all_matched_keywords)))
    /\ (pc = "loop" /\ idx > 1) => last.matched \subseteq pdf_keywords
    /\ (variant = "app1" /\ report # NoReport) =>
           /\ SplitsPaperKeywords(all_matched_keywords, Range(report.missing))
           /\ report.total = Cardinality(pdf_keywords)
           /\ report.matched <= report.total
           /\ report.matched + Len(report.missing) = report.total

\* a report of src/app1_py.py over two units, one that matched a keyword of
\* the paper and one that did not, with a paper keyword missing
C12_Witness ==
    /\ variant = "app1"
    /\ report # NoReport
    /\ Len(file_contents) = 2
    /\ report.missing # <<>>
    /\ report.matched >= 1
    /\ \E k \in DOMAIN file_contents : Result(k).matched = {}
    /\ \E k \in DOMAIN file_contents : Result(k).matched = all_matched_keywords

====
